---- MODULE Spec2Model ----
(***************************************************************************)
(* Write side of bitstream-io: BitWriter (direct to a byte sink),          *)
(* BitCounter (counts bits) and BitRecorder (logs calls, plays them back),  *)
(* all implementing the BitWrite contract for both endiannesses.            *)
(*                                                                         *)
(* A Numeric value is a two's-complement bit vector: a sequence of 0/1 of  *)
(* the length of its type, least significant bit at index 1.  Bytes that   *)
(* reached the sink are kept as integers 0..255.                           *)
(***************************************************************************)
EXTENDS Integers, Sequences, FiniteSets, TLC

(***************************************************************************)
(* Numeric: the fixed-width integer types accepted by write / write_signed *)
(***************************************************************************)
UnsignedTypes == {"u8", "u16", "u32", "u64"}
SignedTypes == {"i8", "i16"}

bits_size(N) ==
  CASE N \in {"u8", "i8"} -> 8
    [] N \in {"u16", "i16"} -> 16
    [] N = "u32" -> 32
    [] N = "u64" -> 64

is_signed(N) == N \in SignedTypes

Bit == {0, 1}

\* a bit vector held as a sequence of its bits
vec(v) == v \o <<>>

\* N::default(): all bits clear
zero(N) == vec([i \in 1..bits_size(N) |-> 0])

\* N::one()
one(N) == vec([i \in 1..bits_size(N) |-> IF i = 1 THEN 1 ELSE 0])

\* a literal with every bit set (0xFFFF_FFFFu32, 0xFFFF_FFFF_FFFF_FFFFu64)
all_ones(N) == vec([i \in 1..bits_size(N) |-> 1])

is_zero(v) == \A i \in 1..Len(v) : v[i] = 0

is_negative(N, v) == is_signed(N) /\ v[Len(v)] = 1

\* v << k; a shift amount of the width or more is masked to the width
shl(v, k) ==
  LET s == k % Len(v)
  IN  vec([i \in 1..Len(v) |-> IF i > s THEN v[i - s] ELSE 0])

\* v >> k: logical for unsigned types, arithmetic for signed ones
shr(N, v, k) ==
  LET s == k % Len(v)
      fill == IF is_signed(N) THEN v[Len(v)] ELSE 0
  IN  vec([i \in 1..Len(v) |-> IF i + s <= Len(v) THEN v[i + s] ELSE fill])

bit_or(a, b) == vec([i \in 1..Len(a) |-> IF a[i] = 1 \/ b[i] = 1 THEN 1 ELSE 0])

\* a > b as unsigned bit patterns
above(a, b) ==
  \E i \in 1..Len(a) :
    /\ a[i] = 1
    /\ b[i] = 0
    /\ \A j \in (i + 1)..Len(a) : a[j] = b[j]

\* a >= b in the ordering of type N
ge(N, a, b) ==
  IF is_signed(N) /\ a[Len(a)] # b[Len(b)]
  THEN a[Len(a)] = 0
  ELSE a = b \/ above(a, b)

\* v % (one << k): the remainder takes the sign of v (k below the width)
rem_pow2(N, v, k) ==
  LET low == vec([i \in 1..Len(v) |-> IF i <= k THEN v[i] ELSE 0])
  IN  IF is_negative(N, v) /\ ~is_zero(low)
      THEN vec([i \in 1..Len(v) |-> IF i <= k THEN v[i] ELSE 1])
      ELSE low

\* v - 1 (wrapping)
sub_one(v) ==
  vec([i \in 1..Len(v) |->
         IF \A j \in 1..(i - 1) : v[j] = 0 THEN 1 - v[i] ELSE v[i]])

\* value.to_u8(): `as u8`, the low eight bits
to_u8(v) == vec([i \in 1..8 |-> v[i]])

\* the integer 0..255 a u8 stands for
byte_of(b) ==
  b[1] + 2 * b[2] + 4 * b[3] + 8 * b[4] + 16 * b[5] + 32 * b[6] + 64 * b[7] + 128 * b[8]

\* bit i (from 0) of the integer n in two's complement, |n| < 2^31
int_bit(n, i) ==
  LET m == IF n >= 0 THEN n ELSE (-n) - 1
      b == IF i <= 30 THEN (m \div (2 ^ i)) % 2 ELSE 0
  IN  IF n >= 0 THEN b ELSE 1 - b

\* the literal n of type N
lit(N, n) == vec([i \in 1..bits_size(N) |-> int_bit(n, i - 1)])

(***************************************************************************)
(* BitQueue<E, N> and the two Endianness strategies                        *)
(***************************************************************************)
Endiannesses == {"BigEndian", "LittleEndian"}

BitQueue_new(N) == [bits |-> 0, value |-> zero(N)]

BitQueue_from_value(value, bits) == [bits |-> bits, value |-> value]

remaining_len(queue) == Len(queue.value) - queue.bits

is_empty(queue) == queue.bits = 0

is_full(queue) == queue.bits = Len(queue.value)

\* E::push: the value is taken as it comes, the caller makes it fit
push(E, queue, bits, value) ==
  IF E = "BigEndian"
  THEN [bits |-> queue.bits + bits,
        value |-> bit_or(IF ~is_zero(queue.value)
                         THEN shl(queue.value, bits)
                         ELSE queue.value,
                         value)]
  ELSE [bits |-> queue.bits + bits,
        value |-> IF ~is_zero(value)
                  THEN bit_or(queue.value, shl(value, queue.bits))
                  ELSE queue.value]

\* E::pop: the bits nearest the front; [queue, value]
pop(E, N, queue, bits) ==
  IF bits >= queue.bits
  THEN [queue |-> [bits |-> 0, value |-> zero(N)], value |-> queue.value]
  ELSE IF E = "BigEndian"
  THEN LET offset == queue.bits - bits
       IN  [queue |-> [bits |-> queue.bits - bits,
                       value |-> rem_pow2(N, queue.value, offset)],
            value |-> shr(N, queue.value, offset)]
  ELSE [queue |-> [bits |-> queue.bits - bits,
                   value |-> shr(N, queue.value, bits)],
        value |-> rem_pow2(N, queue.value, bits)]

(***************************************************************************)
(* The byte sink (io::Write): bytes accepted so far; a limited sink fails  *)
(* once `room` bytes have been taken; `failed` counts the calls it refused *)
(***************************************************************************)
Min(a, b) == IF a < b THEN a ELSE b

Max(a, b) == IF a > b THEN a ELSE b

\* let v = ...; f(v)
bind(v, f(_)) == f(v)

write_all(writer, buf) ==
  IF ~writer.limited
  THEN [writer |-> [writer EXCEPT !.data = @ \o buf], res |-> "Ok"]
  ELSE IF Len(buf) <= writer.room
  THEN [writer |-> [writer EXCEPT !.data = @ \o buf, !.room = @ - Len(buf)],
        res |-> "Ok"]
  ELSE [writer |-> [writer EXCEPT !.data = @ \o SubSeq(buf, 1, writer.room),
                                  !.room = 0, !.failed = @ + 1],
        res |-> "IoError"]

\* a write_byte that calls the sink again when it fails
write_byte_retrying(writer, byte) ==
  bind(write_all(writer, <<byte_of(byte)>>), LAMBDA w :
    IF w.res # "Ok" THEN write_all(w.writer, <<byte_of(byte)>>) ELSE w)

write_byte(writer, byte) == write_all(writer, <<byte_of(byte)>>)

\* a write_unaligned that takes the byte out of rem once the sink has it
write_unaligned_pop_after_write(E, N, writer, acc, rem) ==
  IF is_empty(rem)
  THEN [writer |-> writer, acc |-> acc, rem |-> rem, res |-> "Ok",
        pushed |-> rem.bits]
  ELSE bind(Min(8 - rem.bits, acc.bits), LAMBDA bits_to_transfer :
       bind(pop(E, N, acc, bits_to_transfer), LAMBDA popped :
       bind(push(E, rem, bits_to_transfer, to_u8(popped.value)), LAMBDA rem1 :
         IF rem1.bits = 8
         THEN bind(write_byte(writer, rem1.value), LAMBDA w :
                [writer |-> w.writer, acc |-> popped.queue,
                 rem |-> IF w.res = "Ok" THEN pop(E, "u8", rem1, 8).queue
                         ELSE rem1,
                 res |-> w.res, pushed |-> rem1.bits])
         ELSE [writer |-> writer, acc |-> popped.queue, rem |-> rem1,
               res |-> "Ok", pushed |-> rem1.bits])))

\* fills the partial byte `rem` from `acc` and emits it when complete;
\* `pushed` is the length its push left in rem
write_unaligned(E, N, writer, acc, rem) ==
  IF is_empty(rem)
  THEN [writer |-> writer, acc |-> acc, rem |-> rem, res |-> "Ok",
        pushed |-> rem.bits]
  ELSE bind(Min(8 - rem.bits, acc.bits), LAMBDA bits_to_transfer :
       bind(pop(E, N, acc, bits_to_transfer), LAMBDA popped :
       bind(push(E, rem, bits_to_transfer, to_u8(popped.value)), LAMBDA rem1 :
         IF rem1.bits = 8
         THEN bind(pop(E, "u8", rem1, 8), LAMBDA byte :
              bind(write_byte(writer, byte.value), LAMBDA w :
                [writer |-> w.writer, acc |-> popped.queue,
                 rem |-> byte.queue, res |-> w.res, pushed |-> rem1.bits]))
         ELSE [writer |-> writer, acc |-> popped.queue, rem |-> rem1,
               res |-> "Ok", pushed |-> rem1.bits])))

\* for b in buf[0..n] { *b = acc.pop(8).to_u8() }: [acc, buf]
RECURSIVE pop_bytes(_, _, _, _)
pop_bytes(E, N, acc, n) ==
  IF n = 0
  THEN [acc |-> acc, buf |-> <<>>]
  ELSE bind(pop(E, N, acc, 8), LAMBDA b :
       bind(pop_bytes(E, N, b.queue, n - 1), LAMBDA rest :
         [acc |-> rest.acc, buf |-> <<byte_of(to_u8(b.value))>> \o rest.buf]))

\* emits the whole bytes held by acc in one write_all
write_aligned(E, N, writer, acc) ==
  IF acc.bits \div 8 > 0
  THEN bind(pop_bytes(E, N, acc, acc.bits \div 8), LAMBDA p :
       bind(write_all(writer, p.buf), LAMBDA w :
         [writer |-> w.writer, acc |-> p.acc, res |-> w.res]))
  ELSE [writer |-> writer, acc |-> acc, res |-> "Ok"]

(***************************************************************************)
(* BitWriter<W, E>.  Beside the fields of the struct a writer carries       *)
(* `peak`, the greatest length a push has ever left in its bitqueue         *)
(***************************************************************************)
NewSink == [data |-> <<>>, limited |-> FALSE, room |-> 0, failed |-> 0]

\* a sink with room for `room` bytes, such as a &mut [u8] of that length
LimitedSink(room) == [data |-> <<>>, limited |-> TRUE, room |-> room, failed |-> 0]

BitWriter_new(writer) ==
  [kind |-> "BitWriter", writer |-> writer, bitqueue |-> BitQueue_new("u8"),
   peak |-> 0]

Ok(self) == [self |-> self, res |-> "Ok"]

Err(self, kind) == [self |-> self, res |-> kind]

\* bits > U::bits_size()
excessive_bits(U, bits) == bits > bits_size(U)

\* (bits < U::bits_size()) && (value >= (U::one() << bits))
excessive_value(U, bits, value) ==
  (bits < bits_size(U)) /\ ge(U, value, shl(one(U), bits))

BitWriter_write_bit(E, self, bit) ==
  bind(push(E, self.bitqueue, 1, lit("u8", IF bit THEN 1 ELSE 0)), LAMBDA q :
    IF is_full(q)
    THEN bind(pop(E, "u8", q, 8), LAMBDA byte :
         bind(write_byte(self.writer, byte.value), LAMBDA w :
           [self |-> [self EXCEPT !.writer = w.writer, !.bitqueue = byte.queue,
                                  !.peak = Max(@, q.bits)],
            res |-> w.res]))
    ELSE Ok([self EXCEPT !.bitqueue = q, !.peak = Max(@, q.bits)]))

\* a write that takes the fast path whenever the bits fit, a full byte included
BitWriter_write_fast_when_it_fits(E, self, U, bits, value) ==
  IF excessive_bits(U, bits)
  THEN Err(self, "InvalidInput")
  ELSE IF excessive_value(U, bits, value)
  THEN Err(self, "InvalidInput")
  ELSE IF bits <= remaining_len(self.bitqueue)
  THEN bind(push(E, self.bitqueue, bits, to_u8(value)), LAMBDA q :
         Ok([self EXCEPT !.bitqueue = q, !.peak = Max(@, q.bits)]))
  ELSE bind(write_unaligned(E, U, self.writer, BitQueue_from_value(value, bits),
                            self.bitqueue), LAMBDA u :
         IF u.res # "Ok"
         THEN Err([self EXCEPT !.writer = u.writer, !.bitqueue = u.rem,
                               !.peak = Max(@, u.pushed)], u.res)
         ELSE bind(write_aligned(E, U, u.writer, u.acc), LAMBDA a :
                IF a.res # "Ok"
                THEN Err([self EXCEPT !.writer = a.writer, !.bitqueue = u.rem,
                                      !.peak = Max(@, u.pushed)],
                         a.res)
                ELSE bind(push(E, u.rem, a.acc.bits, to_u8(a.acc.value)),
                          LAMBDA q :
                       Ok([self EXCEPT !.writer = a.writer, !.bitqueue = q,
                                       !.peak = Max(Max(@, u.pushed), q.bits)]))))

BitWriter_write(E, self, U, bits, value) ==
  IF excessive_bits(U, bits)
  THEN Err(self, "InvalidInput")
  ELSE IF excessive_value(U, bits, value)
  THEN Err(self, "InvalidInput")
  ELSE IF bits < remaining_len(self.bitqueue)
  THEN bind(push(E, self.bitqueue, bits, to_u8(value)), LAMBDA q :
         Ok([self EXCEPT !.bitqueue = q, !.peak = Max(@, q.bits)]))
  ELSE bind(write_unaligned(E, U, self.writer, BitQueue_from_value(value, bits),
                            self.bitqueue), LAMBDA u :
         IF u.res # "Ok"
         THEN Err([self EXCEPT !.writer = u.writer, !.bitqueue = u.rem,
                               !.peak = Max(@, u.pushed)], u.res)
         ELSE bind(write_aligned(E, U, u.writer, u.acc), LAMBDA a :
                IF a.res # "Ok"
                THEN Err([self EXCEPT !.writer = a.writer, !.bitqueue = u.rem,
                                      !.peak = Max(@, u.pushed)],
                         a.res)
                ELSE bind(push(E, u.rem, a.acc.bits, to_u8(a.acc.value)),
                          LAMBDA q :
                       Ok([self EXCEPT !.writer = a.writer, !.bitqueue = q,
                                       !.peak = Max(Max(@, u.pushed), q.bits)]))))

BitWriter_byte_aligned(self) == is_empty(self.bitqueue)

into_writer(self) == self.writer

into_unwritten(self) == <<self.bitqueue.bits, byte_of(self.bitqueue.value)>>

(***************************************************************************)
(* BitCounter<N, E>: the total N is taken wide enough for the bounded runs *)
(***************************************************************************)
BitCounter_new == [kind |-> "BitCounter", bits |-> 0]

BitCounter_write_bit(self, bit) == Ok([self EXCEPT !.bits = @ + 1])

\* a counter that checks the width but not the value
BitCounter_write_unchecked_value(self, U, bits, value) ==
  IF excessive_bits(U, bits)
  THEN Err(self, "InvalidInput")
  ELSE Ok([self EXCEPT !.bits = @ + bits])

BitCounter_write(self, U, bits, value) ==
  IF excessive_bits(U, bits)
  THEN Err(self, "InvalidInput")
  ELSE IF excessive_value(U, bits, value)
  THEN Err(self, "InvalidInput")
  ELSE Ok([self EXCEPT !.bits = @ + bits])

\* len as u32 * 8 for a buffer of len bytes, len < 2^31: [panic, value].  A
\* product of 2^32 or more panics in a build with overflow checks and wraps
\* to 32 bits in a build without them
mul_8_u32(overflow_checks, len) ==
  IF len < 2 ^ 29
  THEN [panic |-> FALSE, value |-> len * 8]
  ELSE IF overflow_checks
  THEN [panic |-> TRUE, value |-> 0]
  ELSE [panic |-> FALSE, value |-> (len % (2 ^ 29)) * 8]

\* buf.len() as u32 * 8 for a buffer held in the model, far shorter than
\* 2^29 bytes
len_bits(buf) == mul_8_u32(FALSE, Len(buf)).value

\* write_bytes of a buffer of len bytes, too long to be held in the model
BitCounter_write_bytes_of_len(overflow_checks, self, len) ==
  bind(mul_8_u32(overflow_checks, len), LAMBDA p :
    IF p.panic THEN Err(self, "Panic") ELSE Ok([self EXCEPT !.bits = @ + p.value]))

\* a counter that adds the length of the buffer in bytes
BitCounter_write_bytes_in_bytes(self, buf) == Ok([self EXCEPT !.bits = @ + Len(buf)])

BitCounter_write_bytes(self, buf) == Ok([self EXCEPT !.bits = @ + len_bits(buf)])

\* a counter that divides where it should take the remainder
BitCounter_byte_aligned_div(self) == self.bits \div 8 = 0

BitCounter_byte_aligned(self) == self.bits % 8 = 0

written(self) == self.bits

(***************************************************************************)
(* BitRecorder<N, E> and its WriteRecord log                               *)
(***************************************************************************)
BitRecorder_new == [kind |-> "BitRecorder", bits |-> 0, records |-> <<>>]

WriteRecord_Bit(v) ==
  [tag |-> "Bit", bit |-> v, bits |-> 0, ty |-> "", value |-> <<>>, bytes |-> <<>>]

WriteRecord_Unsigned(bits, U, value) ==
  [tag |-> "Unsigned", bit |-> FALSE, bits |-> bits, ty |-> U, value |-> value,
   bytes |-> <<>>]

WriteRecord_Signed(bits, S, value) ==
  [tag |-> "Signed", bit |-> FALSE, bits |-> bits, ty |-> S, value |-> value,
   bytes |-> <<>>]

WriteRecord_Bytes(buf) ==
  [tag |-> "Bytes", bit |-> FALSE, bits |-> 0, ty |-> "", value |-> <<>>,
   bytes |-> buf]

BitRecorder_write_bit(self, bit) ==
  Ok([self EXCEPT !.records = Append(@, WriteRecord_Bit(bit)), !.bits = @ + 1])

\* a recorder that validates like the writer before it records
BitRecorder_write_validating(self, U, bits, value) ==
  IF excessive_bits(U, bits) \/ excessive_value(U, bits, value)
  THEN Err(self, "InvalidInput")
  ELSE Ok([self EXCEPT !.records = Append(@, WriteRecord_Unsigned(bits, U, value)),
                       !.bits = @ + bits])

BitRecorder_write(self, U, bits, value) ==
  Ok([self EXCEPT !.records = Append(@, WriteRecord_Unsigned(bits, U, value)),
                  !.bits = @ + bits])

\* a recorder that logs a signed value without advancing its total
BitRecorder_write_signed_uncounted(self, S, bits, value) ==
  Ok([self EXCEPT !.records = Append(@, WriteRecord_Signed(bits, S, value))])

BitRecorder_write_signed(self, S, bits, value) ==
  Ok([self EXCEPT !.records = Append(@, WriteRecord_Signed(bits, S, value)),
                  !.bits = @ + bits])

BitRecorder_write_bytes(self, buf) ==
  Ok([self EXCEPT !.records = Append(@, WriteRecord_Bytes(buf)),
                  !.bits = @ + len_bits(buf)])

\* write_bytes of a buffer of len zero bytes, too long to be held in the
\* model: the record is pushed before the total is advanced
BitRecorder_write_bytes_of_len(overflow_checks, self, len) ==
  bind([self EXCEPT !.records = Append(@, WriteRecord_Bytes([len |-> len, byte |-> 0]))],
       LAMBDA logged :
         bind(mul_8_u32(overflow_checks, len), LAMBDA p :
           IF p.panic THEN Err(logged, "Panic")
           ELSE Ok([logged EXCEPT !.bits = @ + p.value])))

BitRecorder_byte_aligned(self) == self.bits % 8 = 0

(***************************************************************************)
(* The BitWrite contract: each call goes to the implementation of the      *)
(* object it is made on; the provided methods are written once on top      *)
(***************************************************************************)
write_bit(E, self, bit) ==
  CASE self.kind = "BitWriter" -> BitWriter_write_bit(E, self, bit)
    [] self.kind = "BitCounter" -> BitCounter_write_bit(self, bit)
    [] self.kind = "BitRecorder" -> BitRecorder_write_bit(self, bit)

write(E, self, U, bits, value) ==
  CASE self.kind = "BitWriter" -> BitWriter_write(E, self, U, bits, value)
    [] self.kind = "BitCounter" -> BitCounter_write(self, U, bits, value)
    [] self.kind = "BitRecorder" -> BitRecorder_write(self, U, bits, value)

byte_aligned(self) ==
  CASE self.kind = "BitWriter" -> BitWriter_byte_aligned(self)
    [] self.kind = "BitCounter" -> BitCounter_byte_aligned(self)
    [] self.kind = "BitRecorder" -> BitRecorder_byte_aligned(self)

\* first.and_then(|()| second), and the `?` operator
and_then(first, second(_)) == IF first.res # "Ok" THEN first ELSE second(first.self)

\* buf.iter().try_for_each(|b| self.write(8, *b))
RECURSIVE write_each_byte(_, _, _)
write_each_byte(E, self, buf) ==
  IF buf = <<>>
  THEN Ok(self)
  ELSE and_then(write(E, self, "u8", 8, lit("u8", Head(buf))),
                LAMBDA x : write_each_byte(E, x, Tail(buf)))

\* a write_bytes that hands the buffer to the sink whatever is pending
BitWriter_write_bytes_unconditional(E, self, buf) ==
  bind(write_all(self.writer, buf), LAMBDA w :
    [self |-> [self EXCEPT !.writer = w.writer], res |-> w.res])

BitWriter_write_bytes(E, self, buf) ==
  IF BitWriter_byte_aligned(self)
  THEN bind(write_all(self.writer, buf), LAMBDA w :
         [self |-> [self EXCEPT !.writer = w.writer], res |-> w.res])
  ELSE write_each_byte(E, self, buf)

write_bytes(E, self, buf) ==
  CASE self.kind = "BitWriter" -> BitWriter_write_bytes(E, self, buf)
    [] self.kind = "BitCounter" -> BitCounter_write_bytes(self, buf)
    [] self.kind = "BitRecorder" -> BitRecorder_write_bytes(self, buf)

(***************************************************************************)
(* E::write_signed: the two's-complement packing of each strategy          *)
(***************************************************************************)
\* value is within [-2^(bits-1), 2^(bits-1) - 1] (bits from 1 to the width)
fits_signed(value, bits) ==
  \A i \in bits..Len(value) : value[i] = value[Len(value)]

\* the low bits-1 bits of value: what follows the sign bit
as_unsigned(value, bits) ==
  [i \in 1..Len(value) |-> IF i <= bits - 1 THEN value[i] ELSE 0]

\* byte k (from 0, least significant first) of value
byte_at(value, k) == byte_of([i \in 1..8 |-> value[8 * k + i]])

to_le_bytes(value) == [k \in 1..(Len(value) \div 8) |-> byte_at(value, k - 1)]

to_be_bytes(value) ==
  [k \in 1..(Len(value) \div 8) |-> byte_at(value, (Len(value) \div 8) - k)]

\* a packing that finds the value out of range once the sign bit is written
E_write_signed_sign_first(E, w, S, bits, value) ==
  IF bits > bits_size(S)
  THEN Err(w, "InvalidInput")
  ELSE IF bits = bits_size(S)
  THEN write_bytes(E, w, IF E = "BigEndian" THEN to_be_bytes(value)
                         ELSE to_le_bytes(value))
  ELSE IF E = "BigEndian"
  THEN and_then(write_bit(E, w, is_negative(S, value)),
                LAMBDA x : IF ~fits_signed(value, bits)
                           THEN Err(x, "InvalidInput")
                           ELSE write(E, x, S, bits - 1, as_unsigned(value, bits)))
  ELSE IF ~fits_signed(value, bits)
  THEN Err(w, "InvalidInput")
  ELSE and_then(write(E, w, S, bits - 1, as_unsigned(value, bits)),
                LAMBDA x : write_bit(E, x, is_negative(S, value)))

E_write_signed(E, w, S, bits, value) ==
  IF bits > bits_size(S) \/ ~fits_signed(value, bits)
  THEN Err(w, "InvalidInput")
  ELSE IF bits = bits_size(S)
  THEN write_bytes(E, w, IF E = "BigEndian" THEN to_be_bytes(value)
                         ELSE to_le_bytes(value))
  ELSE IF E = "BigEndian"
  THEN and_then(write_bit(E, w, is_negative(S, value)),
                LAMBDA x : write(E, x, S, bits - 1, as_unsigned(value, bits)))
  ELSE and_then(write(E, w, S, bits - 1, as_unsigned(value, bits)),
                LAMBDA x : write_bit(E, x, is_negative(S, value)))

\* a counter whose write_signed adds the bits without looking at the value
write_signed_counter_unchecked(E, self, S, bits, value) ==
  CASE self.kind = "BitRecorder" -> BitRecorder_write_signed(self, S, bits, value)
    [] self.kind = "BitCounter" -> Ok([self EXCEPT !.bits = @ + bits])
    [] self.kind = "BitWriter" -> E_write_signed(E, self, S, bits, value)

\* a writer whose write_signed hands the value to write as it is
write_signed_as_write(E, self, S, bits, value) ==
  CASE self.kind = "BitRecorder" -> BitRecorder_write_signed(self, S, bits, value)
    [] self.kind = "BitCounter" -> E_write_signed(E, self, S, bits, value)
    [] self.kind = "BitWriter" -> write(E, self, S, bits, value)

write_signed(E, self, S, bits, value) ==
  IF self.kind = "BitRecorder"
  THEN BitRecorder_write_signed(self, S, bits, value)
  ELSE E_write_signed(E, self, S, bits, value)

(***************************************************************************)
(* Provided methods of BitWrite                                            *)
(***************************************************************************)
\* while bits > 64 { self.write(64, pattern)?; bits -= 64 }: [self, res, bits]
RECURSIVE write_chunks(_, _, _, _)
write_chunks(E, self, pattern, bits) ==
  IF bits > 64
  THEN bind(write(E, self, "u64", 64, pattern), LAMBDA r :
         IF r.res # "Ok"
         THEN [self |-> r.self, res |-> r.res, bits |-> bits]
         ELSE write_chunks(E, r.self, pattern, bits - 64))
  ELSE [self |-> self, res |-> "Ok", bits |-> bits]

\* the type and the value the arms of write_unary0 pass to write
unary0_type(value) == IF value <= 32 THEN "u32" ELSE "u64"

unary0_value(value) ==
  IF value <= 31 THEN sub_one(shl(one("u32"), value))
  ELSE IF value = 32 THEN all_ones("u32")
  ELSE IF value <= 63 THEN sub_one(shl(one("u64"), value))
  ELSE all_ones("u64")

\* a write_unary0 without the arms for 32 and 64: (1 << value) - 1 throughout
RECURSIVE write_unary0_shift_only(_, _, _)
write_unary0_shift_only(E, self, value) ==
  IF value = 0
  THEN write_bit(E, self, FALSE)
  ELSE IF value <= 64
  THEN and_then(write(E, self, unary0_type(value), value,
                      sub_one(shl(one(unary0_type(value)), value))),
                LAMBDA x : write_bit(E, x, FALSE))
  ELSE bind(write_chunks(E, self, all_ones("u64"), value), LAMBDA c :
         IF c.res # "Ok"
         THEN Err(c.self, c.res)
         ELSE write_unary0_shift_only(E, c.self, c.bits))

RECURSIVE write_unary0(_, _, _)
write_unary0(E, self, value) ==
  IF value = 0
  THEN write_bit(E, self, FALSE)
  ELSE IF value <= 64
  THEN and_then(write(E, self, unary0_type(value), value, unary0_value(value)),
                LAMBDA x : write_bit(E, x, FALSE))
  ELSE bind(write_chunks(E, self, all_ones("u64"), value), LAMBDA c :
         IF c.res # "Ok"
         THEN Err(c.self, c.res)
         ELSE write_unary0(E, c.self, c.bits))

\* a write_unary1 that writes every run of up to 64 zeros as a u32
RECURSIVE write_unary1_u32_only(_, _, _)
write_unary1_u32_only(E, self, value) ==
  IF value = 0
  THEN write_bit(E, self, TRUE)
  ELSE IF value <= 64
  THEN and_then(write(E, self, "u32", value, zero("u32")),
                LAMBDA x : write_bit(E, x, TRUE))
  ELSE bind(write_chunks(E, self, zero("u64"), value), LAMBDA c :
         IF c.res # "Ok"
         THEN Err(c.self, c.res)
         ELSE write_unary1_u32_only(E, c.self, c.bits))

RECURSIVE write_unary1(_, _, _)
write_unary1(E, self, value) ==
  IF value = 0
  THEN write_bit(E, self, TRUE)
  ELSE IF value <= 64
  THEN and_then(write(E, self, IF value <= 32 THEN "u32" ELSE "u64", value,
                      IF value <= 32 THEN zero("u32") ELSE zero("u64")),
                LAMBDA x : write_bit(E, x, TRUE))
  ELSE bind(write_chunks(E, self, zero("u64"), value), LAMBDA c :
         IF c.res # "Ok"
         THEN Err(c.self, c.res)
         ELSE write_unary1(E, c.self, c.bits))

\* while !self.byte_aligned() { self.write_bit(false)?; }
RECURSIVE byte_align(_, _)
byte_align(E, self) ==
  IF byte_aligned(self)
  THEN Ok(self)
  ELSE and_then(write_bit(E, self, FALSE), LAMBDA x : byte_align(E, x))

(***************************************************************************)
(* Playback of a recorder's log onto any BitWrite target                   *)
(***************************************************************************)
\* a playback that replays a Signed record through write
WriteRecord_playback_signed_as_unsigned(E, record, writer) ==
  CASE record.tag = "Bit" -> write_bit(E, writer, record.bit)
    [] record.tag \in {"Unsigned", "Signed"} ->
         write(E, writer, record.ty, record.bits, record.value)
    [] record.tag = "Bytes" -> write_bytes(E, writer, record.bytes)

WriteRecord_playback(E, record, writer) ==
  CASE record.tag = "Bit" -> write_bit(E, writer, record.bit)
    [] record.tag = "Unsigned" ->
         write(E, writer, record.ty, record.bits, record.value)
    [] record.tag = "Signed" ->
         write_signed(E, writer, record.ty, record.bits, record.value)
    [] record.tag = "Bytes" -> write_bytes(E, writer, record.bytes)

\* a loop that goes on after a failure and returns the first error at the end
RECURSIVE for_each_record_keep_going(_, _, _)
for_each_record_keep_going(E, records, writer) ==
  IF records = <<>>
  THEN Ok(writer)
  ELSE bind(WriteRecord_playback(E, Head(records), writer), LAMBDA r :
       bind(for_each_record_keep_going(E, Tail(records), r.self), LAMBDA rest :
         IF r.res # "Ok" THEN Err(rest.self, r.res) ELSE rest))

\* records.iter().try_for_each(|record| record.playback(writer))
RECURSIVE try_for_each_record(_, _, _)
try_for_each_record(E, records, writer) ==
  IF records = <<>>
  THEN Ok(writer)
  ELSE and_then(WriteRecord_playback(E, Head(records), writer),
                LAMBDA x : try_for_each_record(E, Tail(records), x))

\* a playback that drains the log as it replays it
BitRecorder_playback_draining(E, self, writer) ==
  bind(try_for_each_record(E, self.records, writer), LAMBDA r :
    [recorder |-> [self EXCEPT !.records = <<>>, !.bits = 0], self |-> r.self,
     res |-> r.res])

\* BitRecorder::playback(&self, writer): the recorder and the target afterwards
BitRecorder_playback(E, self, writer) ==
  bind(try_for_each_record(E, self.records, writer), LAMBDA r :
    [recorder |-> self, self |-> r.self, res |-> r.res])

(***************************************************************************)
(* HuffmanWrite.  An encode table maps a symbol to its steps <<bits, value>>; *)
(* the tables are those the compiler makes of the codewords below: steps of *)
(* at most 32 bits, each packed in the bit order of the table               *)
(***************************************************************************)
\* the tree of the documented example, and one with a codeword of two steps
CodeWords ==
  [doc |-> [a |-> <<0>>, b |-> <<1, 0>>, c |-> <<1, 1, 0>>, d |-> <<1, 1, 1>>],
   long |-> [x |-> [k \in 1..34 |-> IF k % 3 = 0 THEN 0 ELSE 1] \o <<>>,
             y |-> <<0, 1>>]]

\* the u32 holding the bits of one step, the first at the top for BigEndian
\* and at the bottom for LittleEndian
pack(E, chunk) ==
  vec([i \in 1..32 |->
         IF i > Len(chunk) THEN 0
         ELSE IF E = "BigEndian" THEN chunk[Len(chunk) + 1 - i] ELSE chunk[i]])

RECURSIVE compile(_, _)
compile(E, code) ==
  IF code = <<>>
  THEN <<>>
  ELSE bind(Min(32, Len(code)), LAMBDA n :
         <<[bits |-> n, value |-> pack(E, SubSeq(code, 1, n))]>>
           \o compile(E, SubSeq(code, n + 1, Len(code))))

\* tree.get(&symbol)
tree_get(E, tree, symbol) == compile(E, CodeWords[tree][symbol])

\* steps.iter().rev(): the steps of a symbol written last to first
RECURSIVE write_steps_reversed(_, _, _)
write_steps_reversed(E, self, steps) ==
  IF steps = <<>>
  THEN Ok(self)
  ELSE and_then(write(E, self, "u32", steps[Len(steps)].bits,
                      steps[Len(steps)].value),
                LAMBDA x : write_steps_reversed(E, x, SubSeq(steps, 1, Len(steps) - 1)))

\* steps.iter().try_for_each(|(bits, value)| self.write(*bits, *value))
RECURSIVE write_steps(_, _, _)
write_steps(E, self, steps) ==
  IF steps = <<>>
  THEN Ok(self)
  ELSE and_then(write(E, self, "u32", Head(steps).bits, Head(steps).value),
                LAMBDA x : write_steps(E, x, Tail(steps)))

\* for &(bits, _) in steps { self.bits += bits }
RECURSIVE BitCounter_write_huffman(_, _)
BitCounter_write_huffman(self, steps) ==
  IF steps = <<>>
  THEN Ok(self)
  ELSE BitCounter_write_huffman([self EXCEPT !.bits = @ + Head(steps).bits],
                                Tail(steps))

write_huffman(E, self, tree, symbol) ==
  IF self.kind = "BitCounter"
  THEN BitCounter_write_huffman(self, tree_get(E, tree, symbol))
  ELSE write_steps(E, self, tree_get(E, tree, symbol))

(***************************************************************************)
(* The state machine.  A caller makes every call of the contract on a      *)
(* direct-sink writer and on a counter at once; when it records, it makes  *)
(* the call on a recorder too, and can play the recorder back onto a new   *)
(* writer or a new counter at any time.                                    *)
(*   bw, bc, br  the BitWriter, the BitCounter and the BitRecorder         *)
(*   last        the last call, the three objects before it, its results   *)
(*   bad         the first call the writer or the counter rejected: the    *)
(*               index of its record and the objects before it             *)
(*   pb          the outcome of the last playback and of the one before    *)
(***************************************************************************)
VARIABLES endian, recording, bw, bc, br, last, bad, pb, ncalls

vars == <<endian, recording, bw, bc, br, last, bad, pb, ncalls>>

\* the number of contract calls of a run
MaxCalls == 3

\* the arguments the calls are drawn from: <<type, bits, value>>; a run that
\* records draws from fewer, its log keeping every call apart
WriteArgs ==
  IF recording
  THEN { <<"u8", 3, 5>>, <<"u8", 3, 8>>, <<"u8", 9, 0>>, <<"u16", 12, 2748>> }
  ELSE { <<"u8", 0, 0>>, <<"u8", 3, 5>>, <<"u8", 3, 8>>, <<"u8", 8, 165>>,
         <<"u8", 9, 0>>, <<"u16", 12, 2748>>, <<"u16", 16, 32769>>,
         <<"i8", 3, -1>>, <<"i8", 7, 5>>, <<"i8", 8, -91>> }

WriteSignedArgs ==
  IF recording
  THEN { <<"i8", 4, -5>>, <<"i8", 4, 8>> }
  ELSE { <<"i8", 4, -5>>, <<"i8", 4, 7>>, <<"i8", 4, 8>>, <<"i8", 4, -9>>,
         <<"i8", 1, -1>>, <<"i8", 9, 0>>, <<"i16", 16, -2>> }

WriteBytesArgs == IF recording THEN { <<98, 97>> } ELSE { <<>>, <<98, 97>> }

Unary0Args == IF recording THEN {10} ELSE {0, 10}

Unary1Args == {3}

WriteBitArgs == IF recording THEN {TRUE} ELSE BOOLEAN

NoCall ==
  [op |-> "new", U |-> "", bits |-> 0, value |-> <<>>, bit |-> FALSE,
   buf |-> <<>>, tree |-> "", symbol |-> "", len |-> 0,
   overflow_checks |-> FALSE]

\* one call of the contract on the object `self`
Apply(E, self, c) ==
  CASE c.op = "write_bit" -> write_bit(E, self, c.bit)
    [] c.op = "write" -> write(E, self, c.U, c.bits, c.value)
    [] c.op = "write_signed" -> write_signed(E, self, c.U, c.bits, c.value)
    [] c.op = "write_bytes" -> write_bytes(E, self, c.buf)
    [] c.op = "write_unary0" -> write_unary0(E, self, c.bits)
    [] c.op = "write_unary1" -> write_unary1(E, self, c.bits)
    [] c.op = "byte_align" -> byte_align(E, self)
    [] c.op = "write_huffman" -> write_huffman(E, self, c.tree, c.symbol)

NoPlayback == [kind |-> "", self |-> <<>>, res |-> ""]

New ==
  /\ endian \in Endiannesses
  /\ bw = BitWriter_new(NewSink)
  /\ bc = BitCounter_new
  /\ br = BitRecorder_new
  /\ last = [call |-> NoCall, pre |-> [bw |-> bw, bc |-> bc, br |-> br],
             res |-> [bw |-> "Ok", bc |-> "Ok", br |-> "Ok"]]
  /\ bad = [k |-> 0, bw |-> bw, bc |-> bc]
  /\ pb = [now |-> NoPlayback, prev |-> NoPlayback]
  /\ ncalls = 0

Init == recording = FALSE /\ New

InitRec == recording = TRUE /\ New

\* the state after the call c returned r.bw, r.bc and r.br
Step(c, r) ==
  /\ bw' = r.bw.self
  /\ bc' = r.bc.self
  /\ br' = r.br.self
  /\ last' = [call |-> c, pre |-> [bw |-> bw, bc |-> bc, br |-> br],
              res |-> [bw |-> r.bw.res, bc |-> r.bc.res, br |-> r.br.res]]
  /\ bad' = IF bad.k = 0 /\ (r.bw.res # "Ok" \/ r.bc.res # "Ok")
            THEN [k |-> Len(br.records) + 1, bw |-> bw, bc |-> bc]
            ELSE bad
  /\ pb' = [now |-> NoPlayback, prev |-> NoPlayback]
  /\ ncalls' = ncalls + 1
  /\ UNCHANGED <<endian, recording>>

\* the same call on the writer, the counter and, when recording, the recorder
Do(c) ==
  Step(c, [o \in {"bw", "bc", "br"} |->
             IF o = "br" /\ ~recording
             THEN Ok(br)
             ELSE Apply(endian,
                        CASE o = "bw" -> bw [] o = "bc" -> bc [] o = "br" -> br,
                        c)])

WriteBit ==
  /\ ncalls < MaxCalls
  /\ \E bit \in WriteBitArgs : Do([NoCall EXCEPT !.op = "write_bit", !.bit = bit])

Write ==
  /\ ncalls < MaxCalls
  /\ \E a \in WriteArgs :
       Do([NoCall EXCEPT !.op = "write", !.U = a[1], !.bits = a[2],
                         !.value = lit(a[1], a[3])])

WriteSigned ==
  /\ ncalls < MaxCalls
  /\ \E a \in WriteSignedArgs :
       Do([NoCall EXCEPT !.op = "write_signed", !.U = a[1], !.bits = a[2],
                         !.value = lit(a[1], a[3])])

WriteBytes ==
  /\ ncalls < MaxCalls
  /\ \E buf \in WriteBytesArgs :
       Do([NoCall EXCEPT !.op = "write_bytes", !.buf = buf])

WriteUnary0 ==
  /\ ncalls < MaxCalls
  /\ \E n \in Unary0Args : Do([NoCall EXCEPT !.op = "write_unary0", !.bits = n])

WriteUnary1 ==
  /\ ncalls < MaxCalls
  /\ \E n \in Unary1Args : Do([NoCall EXCEPT !.op = "write_unary1", !.bits = n])

ByteAlign ==
  /\ ncalls < MaxCalls
  /\ Do([NoCall EXCEPT !.op = "byte_align"])

\* the state after recorder.playback(&mut target) returned r
Played(kind, r) ==
  /\ br' = r.recorder
  /\ pb' = [now |-> [kind |-> kind, self |-> r.self, res |-> r.res],
            prev |-> pb.now]
  /\ last' = [call |-> [NoCall EXCEPT !.op = "playback"],
              pre |-> [bw |-> bw, bc |-> bc, br |-> br],
              res |-> [bw |-> "Ok", bc |-> "Ok", br |-> r.res]]
  /\ UNCHANGED <<endian, recording, bw, bc, bad, ncalls>>

\* recorder.playback(&mut target) on a new BitWriter or a new BitCounter
Playback ==
  /\ recording
  /\ \E kind \in {"BitWriter", "BitCounter"} :
       Played(kind,
              BitRecorder_playback(endian, br,
                                   IF kind = "BitWriter" THEN BitWriter_new(NewSink)
                                   ELSE BitCounter_new))

Call ==
  \/ WriteBit
  \/ Write
  \/ WriteSigned
  \/ WriteBytes
  \/ WriteUnary0
  \/ WriteUnary1
  \/ ByteAlign

Next == Call

NextRec == Call \/ Playback

\* a writer and a counter driven by the same calls
Spec == Init /\ [][Next]_vars

\* the same with a recorder, and its playback
SpecRec == InitRec /\ [][NextRec]_vars

WriteHuffman ==
  /\ ncalls < MaxCalls
  /\ \E tree \in DOMAIN CodeWords :
       \E symbol \in DOMAIN CodeWords[tree] :
         Do([NoCall EXCEPT !.op = "write_huffman", !.tree = tree,
                           !.symbol = symbol])

NextHuffman == WriteHuffman \/ Playback

\* runs of write_huffman on the three implementations, and playback
SpecHuffman == InitRec /\ [][NextHuffman]_vars

\* the rooms of the limited sinks
Rooms == {0, 1, 3}

InitLimited ==
  /\ recording = FALSE
  /\ endian \in Endiannesses
  /\ \E room \in Rooms : bw = BitWriter_new(LimitedSink(room))
  /\ bc = BitCounter_new
  /\ br = BitRecorder_new
  /\ last = [call |-> NoCall, pre |-> [bw |-> bw, bc |-> bc, br |-> br],
             res |-> [bw |-> "Ok", bc |-> "Ok", br |-> "Ok"]]
  /\ bad = [k |-> 0, bw |-> bw, bc |-> bc]
  /\ pb = [now |-> NoPlayback, prev |-> NoPlayback]
  /\ ncalls = 0

\* a writer over a sink that fails when it is full
SpecLimited == InitLimited /\ [][Next]_vars

\* one run length for each arm of the match of write_unary0 and write_unary1:
\* 0, 1..=31, 32, 33..=63, 64, and beyond 64 with two rounds of the loop
UnaryArms == {0, 5, 32, 40, 64, 130}

WriteUnary0Arms ==
  /\ ncalls < MaxCalls
  /\ \E n \in UnaryArms : Do([NoCall EXCEPT !.op = "write_unary0", !.bits = n])

WriteUnary1Arms ==
  /\ ncalls < MaxCalls
  /\ \E n \in UnaryArms : Do([NoCall EXCEPT !.op = "write_unary1", !.bits = n])

NextUnary0 == WriteUnary0Arms \/ Playback

NextUnary1 == WriteUnary1Arms \/ Playback

\* runs of write_unary0 on the three implementations, and playback
SpecUnary0 == InitRec /\ [][NextUnary0]_vars

\* runs of write_unary1 on the three implementations, and playback
SpecUnary1 == InitRec /\ [][NextUnary1]_vars

\* buffer lengths on both sides of 2^29 bytes, where len * 8 reaches 2^32
BufLens == {0, 3, 2 ^ 24, 2 ^ 29, 2 ^ 29 + 5}

\* write_bytes of a long buffer on the counter and on the recorder, in a
\* build with or without overflow checks; nothing runs after a panic
WriteBytesOfLen ==
  /\ ncalls < MaxCalls
  /\ last.res.bc # "Panic"
  /\ \E len \in BufLens :
       \E overflow_checks \in BOOLEAN :
         /\ last.call.op = "new" \/ last.call.overflow_checks = overflow_checks
         /\ Step([NoCall EXCEPT !.op = "write_bytes_of_len", !.len = len,
                                !.overflow_checks = overflow_checks],
                 [bw |-> Ok(bw),
                  bc |-> BitCounter_write_bytes_of_len(overflow_checks, bc, len),
                  br |-> BitRecorder_write_bytes_of_len(overflow_checks, br, len)])

NextBytes == WriteBytesOfLen

\* runs of write_bytes on a counter and a recorder, long buffers included
SpecBytes == InitRec /\ [][NextBytes]_vars

(***************************************************************************)
(* Properties                                                              *)
(***************************************************************************)
\* value >= 2^bits, value read as the integer it stands for in type N
at_least_pow2(N, value, bits) ==
  ~is_negative(N, value) /\ \E i \in (bits + 1)..Len(value) : value[i] = 1

\* the calls of write the specification rejects
must_fail(c) ==
  \/ c.bits > bits_size(c.U)
  \/ c.bits < bits_size(c.U) /\ at_least_pow2(c.U, c.value, c.bits)

\* C1: on the BitWriter and on the BitCounter, write(bits, value) returns an
\* invalid-input error exactly when bits exceeds the width of the value's
\* type, or bits is below the width and value >= 2^bits; it succeeds in
\* every other case.
C1_WriteFailsExactlyWhenOversized ==
  last.call.op = "write" =>
    /\ last.res.bw = IF must_fail(last.call) THEN "InvalidInput" ELSE "Ok"
    /\ last.res.bc = IF must_fail(last.call) THEN "InvalidInput" ELSE "Ok"

\* the low n bits of value in the order the strategy presents them
bits_in_order(E, value, n) ==
  [k \in 1..n |-> IF E = "BigEndian" THEN value[n + 1 - k] ELSE value[k]]

\* for b in bits { self.write_bit(b)? }
RECURSIVE write_bit_each(_, _, _)
write_bit_each(E, self, bits) ==
  IF bits = <<>>
  THEN Ok(self)
  ELSE and_then(write_bit(E, self, Head(bits) = 1),
                LAMBDA x : write_bit_each(E, x, Tail(bits)))

\* C2: a successful write(n, v) on the BitWriter leaves the sink and the
\* partial accumulator exactly as n successive write_bit calls do that
\* present the low n bits of v, most significant first for BigEndian and
\* least significant first for LittleEndian.
C2_WriteEqualsBitByBit ==
  (last.call.op = "write" /\ last.res.bw = "Ok") =>
    bw = write_bit_each(endian, last.pre.bw,
                        bits_in_order(endian, last.call.value, last.call.bits)).self

\* bit k (from 0) of the stream held by the bytes; 2 past their end
stream_bit(E, data, k) ==
  IF k \div 8 + 1 > Len(data)
  THEN 2
  ELSE IF E = "BigEndian"
  THEN (data[k \div 8 + 1] \div (2 ^ (7 - (k % 8)))) % 2
  ELSE (data[k \div 8 + 1] \div (2 ^ (k % 8))) % 2

\* the read engine: the value of the b bits at `offset`, least significant
\* bit at index 1
decode(E, data, offset, b) ==
  [i \in 1..b |-> stream_bit(E, data, IF E = "BigEndian" THEN offset + b - i
                                      ELSE offset + i - 1)]

\* 0 <= value < 2^bits, in a type that holds bits bits
in_range(c) ==
  /\ c.bits <= bits_size(c.U)
  /\ ~is_negative(c.U, c.value)
  /\ \A i \in (c.bits + 1)..Len(c.value) : c.value[i] = 0

\* C3: writing v, 0 <= v < 2^b, in b bits at any offset of the stream and
\* aligning, then decoding b bits at that offset from the bytes of the sink
\* in the same bit order, yields v.
C3_WriteThenDecode ==
  (last.call.op = "write" /\ in_range(last.call)) =>
    decode(endian, byte_align(endian, bw).self.writer.data,
           8 * Len(last.pre.bw.writer.data) + last.pre.bw.bitqueue.bits,
           last.call.bits)
      = [i \in 1..last.call.bits |-> last.call.value[i]]

\* C4: after any operation of the BitWriter the value of its partial
\* accumulator has no bit set at or above its length, whatever the type of
\* the values passed to write, signed types included.
C4_NoBitAboveLength ==
  \A i \in (bw.bitqueue.bits + 1)..8 : bw.bitqueue.value[i] = 0

C6_CounterFailsWithWriter ==
  (last.res.bc # "Ok") <=> (last.res.bw # "Ok")

C6_Witness ==
  /\ last.call.op = "write"
  /\ last.call.bits < bits_size(last.call.U)
  /\ last.res.bw = "InvalidInput"
  /\ last.res.bc = "InvalidInput"
  /\ bw.bitqueue.bits > 0

\* C7: recording a sequence of valid calls and playing it back onto a new
\* BitWriter gives the sink bytes and the pending bits that the same calls
\* give when made directly on a new BitWriter of the same endianness.
C7_PlaybackEqualsDirectWrites ==
  (pb.now.kind = "BitWriter" /\ bad.k = 0) =>
    /\ pb.now.self.writer.data = bw.writer.data
    /\ pb.now.self.bitqueue = bw.bitqueue

C7_Witness ==
  /\ pb.now.kind = "BitWriter"
  /\ bad.k = 0
  /\ Len(br.records) > MaxCalls
  /\ \E i \in 1..Len(br.records) : br.records[i].tag = "Signed"
  /\ Len(pb.now.self.writer.data) > 0
  /\ pb.now.self.bitqueue.bits > 0

\* C8: playback leaves the log and the total of the recorder as they were,
\* whether it succeeds or fails, and two playbacks of the recorder onto new
\* targets of the same kind give the same result.
C8_PlaybackKeepsTheLog ==
  /\ last.call.op = "playback" => br = last.pre.br
  /\ (pb.prev.kind # "" /\ pb.prev.kind = pb.now.kind) => pb.prev = pb.now

C8_Witness ==
  /\ pb.prev.kind = "BitWriter"
  /\ pb.now.kind = "BitWriter"
  /\ pb.now.res = "InvalidInput"
  /\ Len(br.records) >= MaxCalls
  /\ Len(pb.now.self.writer.data) > 0

\* C9: playback applies the records in the order of the log; when the replay
\* of record k fails it returns that error, and the target holds the effect
\* of the records before k and of no record after k.
C9_PlaybackInOrderUntilFailure ==
  pb.now.kind # "" =>
    IF bad.k = 0
    THEN /\ pb.now.res = "Ok"
         /\ pb.now.self = IF pb.now.kind = "BitWriter" THEN bw ELSE bc
    ELSE /\ pb.now.res = "InvalidInput"
         /\ pb.now.self = IF pb.now.kind = "BitWriter" THEN bad.bw ELSE bad.bc

C9_Witness ==
  /\ pb.now.kind = "BitWriter"
  /\ bad.k > 1
  /\ Len(br.records) > bad.k
  /\ bad.bw # BitWriter_new(NewSink)
  /\ bw # bad.bw

\* C10: write and write_signed on the recorder never fail, whatever bits and
\* value are: the call appends one record holding its arguments and adds
\* bits to the total; the invalid-input error of such a call is returned by
\* the playback of its record onto a BitWriter or a BitCounter.
C10_RecorderDefersValidation ==
  /\ last.call.op \in {"write", "write_signed"} =>
       /\ last.res.br = "Ok"
       /\ br.records =
            Append(last.pre.br.records,
                   [tag |-> IF last.call.op = "write" THEN "Unsigned" ELSE "Signed",
                    bit |-> FALSE, bits |-> last.call.bits, ty |-> last.call.U,
                    value |-> last.call.value, bytes |-> <<>>])
       /\ written(br) = written(last.pre.br) + last.call.bits
  /\ (pb.now.kind # "" /\ bad.k > 0) => pb.now.res = "InvalidInput"

C10_Witness ==
  /\ last.call.op = "write"
  /\ last.res.bw = "InvalidInput"
  /\ last.res.bc = "InvalidInput"
  /\ last.res.br = "Ok"
  /\ Len(br.records) = MaxCalls
  /\ written(br) > written(last.pre.br)

\* the integer a value of a signed type stands for
RECURSIVE magnitude(_, _)
magnitude(value, i) ==
  IF i = 0 THEN 0 ELSE value[i] * 2 ^ (i - 1) + magnitude(value, i - 1)

int_of(value) ==
  magnitude(value, Len(value) - 1) - value[Len(value)] * 2 ^ (Len(value) - 1)

\* value lies in [-2^(bits-1), 2^(bits-1) - 1]
in_signed_range(value, bits) ==
  /\ int_of(value) >= -(2 ^ (bits - 1))
  /\ int_of(value) <= 2 ^ (bits - 1) - 1

unsigned_of(S) == IF S = "i8" THEN "u8" ELSE "u16"

\* value mod 2^bits: the low bits of the two's-complement pattern
mod_pow2(value, bits) == [i \in 1..Len(value) |-> IF i <= bits THEN value[i] ELSE 0]

\* C12: for bits >= 1 and value in [-2^(bits-1), 2^(bits-1) - 1],
\* write_signed(bits, value) on a BitWriter emits what write(bits, value mod
\* 2^bits) emits: the bits-wide two's-complement pattern of value in the
\* bit order of the writer.
C12_WriteSignedIsTwosComplement ==
  ( /\ last.call.op = "write_signed"
    /\ last.call.bits <= bits_size(last.call.U)
    /\ in_signed_range(last.call.value, last.call.bits) ) =>
    /\ last.res.bw = "Ok"
    /\ bw = write(endian, last.pre.bw, unsigned_of(last.call.U), last.call.bits,
                  mod_pow2(last.call.value, last.call.bits)).self

\* write_signed(4, -5), write_signed(4, 7) on a BigEndian writer, and the two
\* in the other order on a LittleEndian writer: the byte 0b10110111
C12_Witness ==
  /\ last.call.op = "write_signed"
  /\ last.call.bits = 4
  /\ int_of(last.call.value) = (IF endian = "BigEndian" THEN 7 ELSE -5)
  /\ ncalls = 2
  /\ bw.writer.data = <<183>>
  /\ bw.bitqueue.bits = 0

\* C13: on a BitWriter in any state, aligned or not, write_bytes(buf) leaves
\* the sink bytes and the pending bits that write(8, b) for each byte b of
\* buf in order leaves.
C13_WriteBytesEqualsByteWrites ==
  last.call.op = "write_bytes" =>
    /\ last.res.bw = "Ok"
    /\ bw = write_each_byte(endian, last.pre.bw, last.call.buf).self

C13_Witness ==
  /\ last.call.op = "write_bytes"
  /\ Len(last.call.buf) = 2
  /\ BitWriter_byte_aligned(last.pre.bw)
  /\ Len(last.pre.bw.writer.data) > 0
  /\ Len(bw.writer.data) = Len(last.pre.bw.writer.data) + 2

\* the bits a BitWriter has taken so far, in the order they were written:
\* those of the bytes in the sink, then those pending in the accumulator
stream_of(E, self) ==
  [k \in 1..(8 * Len(self.writer.data) + self.bitqueue.bits) |->
     IF k <= 8 * Len(self.writer.data)
     THEN stream_bit(E, self.writer.data, k - 1)
     ELSE IF E = "BigEndian"
     THEN self.bitqueue.value[self.bitqueue.bits + 1 - (k - 8 * Len(self.writer.data))]
     ELSE self.bitqueue.value[k - 8 * Len(self.writer.data)]]

\* n bits b followed by one bit t
run_then(n, b, t) == [k \in 1..(n + 1) |-> IF k <= n THEN b ELSE t]

\* a playback ended well, with the target the direct calls reached
playback_agrees ==
  pb.now.kind # "" =>
    /\ pb.now.res = "Ok"
    /\ pb.now.self = IF pb.now.kind = "BitWriter" THEN bw ELSE bc

\* C14: for every n >= 0, n = 0, 32, 64 and n > 64 included, write_unary0(n)
\* returns and writes n one-bits followed by one zero-bit, n + 1 bits in
\* all, on the BitWriter, on the BitCounter and on the BitRecorder.
C14_Unary0IsOnesThenZero ==
  /\ last.call.op = "write_unary0" =>
       /\ last.res = [bw |-> "Ok", bc |-> "Ok", br |-> "Ok"]
       /\ stream_of(endian, bw)
            = stream_of(endian, last.pre.bw) \o run_then(last.call.bits, 1, 0)
       /\ written(bc) = written(last.pre.bc) + last.call.bits + 1
       /\ written(br) = written(last.pre.br) + last.call.bits + 1
  /\ playback_agrees

C14_Witness ==
  /\ last.call.op = "write_unary0"
  /\ last.call.bits > 64
  /\ last.pre.bw.bitqueue.bits > 0
  /\ Len(bw.writer.data) > Len(last.pre.bw.writer.data) + 8

\* C15: for every n >= 0, n = 0, 32, 64 and n > 64 included, write_unary1(n)
\* returns and writes n zero-bits followed by one one-bit, n + 1 bits in
\* all, on the BitWriter, on the BitCounter and on the BitRecorder.
C15_Unary1IsZerosThenOne ==
  /\ last.call.op = "write_unary1" =>
       /\ last.res = [bw |-> "Ok", bc |-> "Ok", br |-> "Ok"]
       /\ stream_of(endian, bw)
            = stream_of(endian, last.pre.bw) \o run_then(last.call.bits, 0, 1)
       /\ written(bc) = written(last.pre.bc) + last.call.bits + 1
       /\ written(br) = written(last.pre.br) + last.call.bits + 1
  /\ playback_agrees

C15_Witness ==
  /\ last.call.op = "write_unary1"
  /\ last.call.bits > 64
  /\ last.pre.bw.bitqueue.bits > 0
  /\ Len(bw.writer.data) > Len(last.pre.bw.writer.data) + 8

\* C16: on a BitWriter with p pending bits, byte_align returns after
\* appending (8 - p) mod 8 zero-bits: it changes nothing when p = 0, and
\* otherwise emits one byte, the p pending bits padded with zeros;
\* byte_aligned() is true afterwards.
C16_ByteAlignPadsWithZeros ==
  last.call.op = "byte_align" =>
    /\ last.res.bw = "Ok"
    /\ stream_of(endian, bw)
         = stream_of(endian, last.pre.bw)
             \o [k \in 1..((8 - last.pre.bw.bitqueue.bits) % 8) |-> 0]
    /\ last.pre.bw.bitqueue.bits = 0 => bw = last.pre.bw
    /\ last.pre.bw.bitqueue.bits > 0 =>
         Len(bw.writer.data) = Len(last.pre.bw.writer.data) + 1
    /\ BitWriter_byte_aligned(bw)

\* C17: byte_aligned() of the BitWriter is true exactly when its partial
\* accumulator is empty, which is exactly when the number of bits written
\* so far is a multiple of 8; it agrees with byte_aligned() of the
\* BitCounter after the same calls.
C17_ByteAlignedIffWholeBytes ==
  /\ BitWriter_byte_aligned(bw) <=> bw.bitqueue.bits = 0
  /\ BitWriter_byte_aligned(bw) <=>
       Len(stream_of(endian, bw)) % 8 = 0
  /\ byte_aligned(bw) <=> byte_aligned(bc)

C17_Witness ==
  /\ ncalls = MaxCalls
  /\ last.res.bw = "Ok"
  /\ last.call.op \in {"write", "write_signed", "write_unary0", "write_unary1"}
  /\ last.pre.bw.bitqueue.bits > 0
  /\ ~byte_aligned(last.pre.bc)
  /\ byte_aligned(bw)
  /\ byte_aligned(bc)
  /\ Len(bw.writer.data) >= 2

\* the number the last j of the p pending bits of the stream stand for: the
\* first written is the most significant for BigEndian, the least for
\* LittleEndian
RECURSIVE pending_value(_, _, _, _)
pending_value(E, stream, p, j) ==
  IF j = 0
  THEN 0
  ELSE stream[Len(stream) - j + 1]
         * (IF E = "BigEndian" THEN 2 ^ (j - 1) ELSE 2 ^ (p - j))
       + pending_value(E, stream, p, j - 1)

\* C18: after T bits written to a new BitWriter, into_writer returns a sink
\* of floor(T / 8) bytes, the T mod 8 pending bits never reaching it, and
\* into_unwritten returns (T mod 8, the value of those last T mod 8 bits),
\* (0, 0) when the writer is aligned.
C18_DisposalSplitsAtLastWholeByte ==
  /\ Len(into_writer(bw).data) = written(bc) \div 8
  /\ into_unwritten(bw)
       = << written(bc) % 8,
            pending_value(endian, stream_of(endian, bw), written(bc) % 8,
                          written(bc) % 8) >>
  /\ BitWriter_byte_aligned(bw) => into_unwritten(bw) = <<0, 0>>

\* the writer the last call would have left had the sink not been limited
unlimited_outcome ==
  Apply(endian, [last.pre.bw EXCEPT !.writer.limited = FALSE], last.call)

step_records(steps) ==
  [k \in 1..Len(steps) |-> WriteRecord_Unsigned(steps[k].bits, "u32", steps[k].value)]

\* C20: write_huffman emits the steps of the symbol in table order through
\* write, and the three implementations agree: the total of the BitCounter
\* advances by the number of bits the BitWriter emits for the symbol, and
\* the BitRecorder that recorded the call replays to the same bits.
C20_HuffmanStepsInOrder ==
  /\ last.call.op = "write_huffman" =>
       /\ last.res = [bw |-> "Ok", bc |-> "Ok", br |-> "Ok"]
       /\ stream_of(endian, bw)
            = stream_of(endian, last.pre.bw)
                \o CodeWords[last.call.tree][last.call.symbol]
       /\ br.records
            = last.pre.br.records
                \o step_records(tree_get(endian, last.call.tree, last.call.symbol))
       /\ written(bc) - written(last.pre.bc)
            = Len(stream_of(endian, bw)) - Len(stream_of(endian, last.pre.bw))
       /\ written(br) = written(bc)
  /\ playback_agrees

C20_Witness ==
  /\ pb.now.kind = "BitWriter"
  /\ pb.now.res = "Ok"
  /\ ncalls = MaxCalls
  /\ \E k \in 1..Len(br.records) : br.records[k].bits = 32
  /\ Len(br.records) > MaxCalls
  /\ pb.now.self.bitqueue.bits > 0
  /\ Len(pb.now.self.writer.data) > 4

\* the number of bits the call c is asked to write on a writer with p bits
\* pending
bit_count(c, p) ==
  CASE c.op = "write_bit" -> 1
    [] c.op \in {"write", "write_signed"} -> c.bits
    [] c.op = "write_bytes" -> 8 * Len(c.buf)
    [] c.op \in {"write_unary0", "write_unary1"} -> c.bits + 1
    [] c.op = "byte_align" -> (8 - p) % 8
    [] c.op = "write_huffman" -> Len(CodeWords[c.tree][c.symbol])

\* s starts with t
starts_with(s, t) == Len(s) >= Len(t) /\ SubSeq(s, 1, Len(t)) = t

\* C21: over a sink that never fails, every successful operation of the
\* BitWriter adds its bit count to 8 * (bytes in the sink) + (pending bits),
\* the sink only grows, by whole bytes, and no written bit is lost or
\* duplicated: the bits taken before stay as they were and the bits of a
\* write or a write_bit follow them as they were given.
C21_BitsAreConserved ==
  (last.call.op # "new" /\ last.res.bw = "Ok") =>
    /\ 8 * Len(bw.writer.data) + bw.bitqueue.bits
         = 8 * Len(last.pre.bw.writer.data) + last.pre.bw.bitqueue.bits
             + bit_count(last.call, last.pre.bw.bitqueue.bits)
    /\ starts_with(bw.writer.data, last.pre.bw.writer.data)
    /\ starts_with(stream_of(endian, bw), stream_of(endian, last.pre.bw))
    /\ last.call.op = "write" =>
         stream_of(endian, bw)
           = stream_of(endian, last.pre.bw)
               \o bits_in_order(endian, last.call.value, last.call.bits)
    /\ last.call.op = "write_bit" =>
         stream_of(endian, bw)
           = stream_of(endian, last.pre.bw) \o <<IF last.call.bit THEN 1 ELSE 0>>

\* C22: between operations the partial accumulator of the BitWriter holds at
\* most 7 bits, and no push of write_bit, write or write_unaligned has ever
\* left more than 8 bits in it, whether the sink took the bytes or failed.
C22_AccumulatorNeverOverflows ==
  /\ bw.bitqueue.bits <= 7
  /\ bw.peak <= 8
  /\ bw.peak >= bw.bitqueue.bits

C22_Witness ==
  /\ last.call.op = "write"
  /\ last.res.bw = "Ok"
  /\ last.pre.bw.bitqueue.bits > 0
  /\ last.pre.bw.peak < 8
  /\ Len(bw.writer.data) > Len(last.pre.bw.writer.data)
  /\ bw.peak = 8
  /\ bw.bitqueue.bits = 7

C24_FastPathLeavesTheSinkAlone ==
  ( /\ last.call.op = "write"
    /\ ~must_fail(last.call)
    /\ last.call.bits < 8 - last.pre.bw.bitqueue.bits ) =>
    /\ last.res.bw = "Ok"
    /\ bw.writer = last.pre.bw.writer
    /\ bw.bitqueue.bits = last.pre.bw.bitqueue.bits + last.call.bits
    /\ last.call.bits = 0 => bw = last.pre.bw

\* C25: whatever calls a new BitRecorder recorded, if its playback onto a
\* new BitCounter succeeds, the counter's written() afterwards is the
\* recorder's written(): the total of a recorder is the number of bits its
\* log replays to.
C25_RecorderTotalIsReplayedBits ==
  (pb.now.kind = "BitCounter" /\ pb.now.res = "Ok") =>
    written(pb.now.self) = written(br)

C25_Witness ==
  /\ pb.now.kind = "BitCounter"
  /\ pb.now.res = "Ok"
  /\ Len(br.records) > MaxCalls
  /\ \E i \in 1..Len(br.records) : br.records[i].tag = "Signed"
  /\ \E i \in 1..Len(br.records) : br.records[i].tag = "Bytes"
  /\ written(br) > 16
  /\ written(pb.now.self) = written(br)

\* C26: when the sink rejects the byte completed by write_bit, or by the
\* first step of the slow path of write, the byte has already left the
\* partial accumulator: after the failed call the accumulator is empty,
\* the sink holds what it held, so the 8 bits are in neither, and the bits
\* of the value not yet transferred are dropped too.
C26_RejectedByteIsGone ==
  ( /\ last.call.op \in {"write_bit", "write"}
    /\ last.res.bw = "IoError"
    /\ last.pre.bw.bitqueue.bits > 0
    /\ last.pre.bw.writer.room = 0 ) =>
    /\ bw.bitqueue = BitQueue_new("u8")
    /\ bw.writer.data = last.pre.bw.writer.data
    /\ bw.writer.failed = last.pre.bw.writer.failed + 1
    /\ Len(stream_of(endian, bw))
         = Len(stream_of(endian, last.pre.bw)) - last.pre.bw.bitqueue.bits
    /\ bw.peak = 8

C26_Witness ==
  /\ last.call.op = "write_bit"
  /\ last.res.bw = "IoError"
  /\ last.pre.bw.bitqueue.bits = 7
  /\ bw.bitqueue.bits = 0
  /\ bw.writer.data = last.pre.bw.writer.data
  /\ bw.writer.failed = 1

\* C27: on the BitCounter and on the BitRecorder, with a total wide enough,
\* write_bytes(buf) advances the total by exactly 8 * len(buf) whatever the
\* length of buf: the product (len as u32) * 8 neither wraps nor truncates.
C27_WriteBytesAddsEightPerByte ==
  last.call.op = "write_bytes_of_len" =>
    /\ last.res.bc = "Ok"
    /\ (written(bc) - written(last.pre.bc)) % 8 = 0
    /\ (written(bc) - written(last.pre.bc)) \div 8 = last.call.len
    /\ last.res.br = "Ok"
    /\ (written(br) - written(last.pre.br)) % 8 = 0
    /\ (written(br) - written(last.pre.br)) \div 8 = last.call.len

====
